---------------------------- MODULE Spec2Model ----------------------------
(***************************************************************************)
(* Model of packages/react-cli-service/src/services/PluginApi.ts: the      *)
(* plugin-facing API of the service (command registry, webpack mutation    *)
(* lists, version guard, cache identifier).                                *)
(*                                                                         *)
(* JavaScript strings are modelled as sequences of one-character strings,  *)
(* so that formatting, parsing and line-ending normalisation are computed. *)
(***************************************************************************)
EXTENDS Integers, Sequences, FiniteSets, TLC

VARIABLES
    service,      \* the Service shared by every PluginApi instance
    api,          \* id of the PluginApi instance that made the last call
    history,      \* the API calls made so far, in call order
    invoked,      \* the registered functions that have been invoked so far
    resolved,     \* what the last resolve* call returned
    asserted,     \* the last two assertVersion calls and their outcomes
    env,          \* what lies outside the process: files, process.env, packages
    cacheCalls,   \* the last two getCacheIdentifier calls and their outcomes
    edits         \* number of changes made to the service's surroundings

vars == <<service, api, history, invoked, resolved, asserted, env, cacheCalls, edits>>

---------------------------------------------------------------------------
(* Bounds *)

MaxOps == 3

MaxEdits == 1

---------------------------------------------------------------------------
(* Generic helpers *)

Last(s) == s[Len(s)]

Range(s) == {s[i] : i \in 1..Len(s)}

\* Array.prototype.push, as a value
Push(list, x) == Append(list, x)

---------------------------------------------------------------------------
(* JavaScript values and strings *)

\* a JavaScript value: a number num/den (den = 0 is NaN), a string, or a
\* value of another type
Num(n, d) == [t |-> "number", num |-> n, den |-> d, str |-> <<>>]

Str(s) == [t |-> "string", num |-> 0, den |-> 1, str |-> s]

Other(t) == [t |-> t, num |-> 0, den |-> 1, str |-> <<>>]

DigitChars == <<"0", "1", "2", "3", "4", "5", "6", "7", "8", "9">>

\* the characters of the model in character-code order
CharCodes == 
    <<"-", "0", "1", "2", "3", "4", "5", "6", "7", "8", "9">> \o
    <<"a", "b", "c", "d", "e", "f", "g", "h", "i", "j", "k", "l", "m", "n", "o", "p", "q", "r", "s", "t", "u", "v", "w", "x", "y", "z">>

Code(c) == CHOOSE i \in 1..Len(CharCodes) : CharCodes[i] = c

IsDigit(c) == \E i \in 1..Len(DigitChars) : DigitChars[i] = c

DigitValue(c) == (CHOOSE i \in 1..Len(DigitChars) : DigitChars[i] = c) - 1

RECURSIVE NatToString(_)
NatToString(n) ==
    IF n < 10 THEN <<DigitChars[n + 1]>>
    ELSE NatToString(n \div 10) \o <<DigitChars[(n % 10) + 1]>>

\* Number.prototype.toString for the numbers of the model
NumberToString(v) ==
    IF v.den = 0 THEN <<"N", "a", "N">>
    ELSE LET neg == (v.num < 0) /= (v.den < 0)
             an == IF v.num < 0 THEN -v.num ELSE v.num
             ad == IF v.den < 0 THEN -v.den ELSE v.den
             whole == NatToString(an \div ad)
             frac == IF an % ad = 0 THEN <<>>
                     ELSE <<".">> \o NatToString(((an % ad) * 10) \div ad)
         IN (IF neg /\ an /= 0 THEN <<"-">> ELSE <<>>) \o whole \o frac

Undefined == Other("undefined")

EmptyObject == Other("object")

\* ToBoolean
Truthy(v) ==
    CASE v.t \in {"undefined", "null"} -> FALSE
      [] v.t = "string" -> v.str /= <<>>
      [] v.t = "number" -> v.den /= 0 /\ v.num /= 0
      [] OTHER -> TRUE

\* accepts every number that is not NaN
IsNotNaN(v) == v.t = "number" /\ v.den /= 0

\* Number.isInteger
IsInteger(v) == v.t = "number" /\ v.den /= 0 /\ v.num % v.den = 0

IndexOf(s, c) ==
    IF \E i \in 1..Len(s) : s[i] = c
    THEN CHOOSE i \in 1..Len(s) : s[i] = c /\ \A j \in 1..(i - 1) : s[j] /= c
    ELSE 0

RECURSIVE Split(_, _)
Split(s, sep) ==
    LET i == IndexOf(s, sep)
    IN IF i = 0 THEN <<s>>
       ELSE <<SubSeq(s, 1, i - 1)>> \o Split(SubSeq(s, i + 1, Len(s)), sep)

StartsWith(s, prefix) ==
    Len(prefix) <= Len(s) /\ SubSeq(s, 1, Len(prefix)) = prefix

Contains(s, sub) ==
    \E i \in 0..(Len(s) - Len(sub)) : SubSeq(s, i + 1, i + Len(sub)) = sub

---------------------------------------------------------------------------
(* Values handed to the registry *)

Plugins == {"plugin-a", "plugin-b"}

CommandNames == {"build", "serve"}

Handlers == {"handlerA", "handlerB"}

\* the options argument of registerCommand: an object of flag
\* descriptions, or omitted
ModeOptions == [t |-> "object", num |-> 0, den |-> 1, str |-> <<"--mode", "env mode">>]

OptionsArgs == {Undefined, ModeOptions}

NoCommand == [fn |-> "none", options |-> Undefined]

\* chain mutation functions: setField(field = value) on the chainable config
Fields == {"x", "y"}

ChainFns == {[kind |-> "chain", field |-> "x", value |-> 1, ret |-> FALSE],
             [kind |-> "chain", field |-> "x", value |-> 2, ret |-> FALSE],
             [kind |-> "chain", field |-> "y", value |-> 1, ret |-> FALSE]}

\* raw contributions: a partial configuration object, a function that
\* mutates the raw config in place, a function that returns an object
RawFns == {[kind |-> "object", field |-> "x", value |-> 3, ret |-> FALSE],
           [kind |-> "function", field |-> "y", value |-> 4, ret |-> FALSE],
           [kind |-> "function", field |-> "x", value |-> 5, ret |-> TRUE]}

DevServerFns == {[kind |-> "devServer", field |-> "x", value |-> 6, ret |-> FALSE]}

BaseConfig == [f \in Fields |-> 0]

\* a chainable config a caller may hand to resolveWebpackConfig
SuppliedConfigs == {[f \in Fields |-> 7]}

NoConfig == [f \in Fields |-> -1]

---------------------------------------------------------------------------
(* PluginApi: the registry.  Each operator returns the service after the   *)
(* call and the registered functions the call invoked.                     *)

Done(svc) == [service |-> svc, calls |-> <<>>]

\* first registration wins: an existing command is not overwritten
registerCommandKeepsFirst(svc, name, options, fn) ==
    IF svc.commands[name].fn /= "none" THEN [service |-> svc, calls |-> <<>>]
    ELSE [service |-> [svc EXCEPT !.commands[name] =
            [fn |-> fn, options |-> IF Truthy(options) THEN options
                                    ELSE EmptyObject]],
          calls |-> <<>>]

registerCommand(svc, name, options, fn) ==
    Done([svc EXCEPT !.commands[name] =
            [fn |-> fn, options |-> IF Truthy(options) THEN options ELSE EmptyObject]])

\* unshift instead of push
chainWebpackUnshift(svc, fn) ==
    [service |-> [svc EXCEPT !.webpackChainFns = <<fn>> \o @], calls |-> <<>>]

chainWebpack(svc, fn) ==
    Done([svc EXCEPT !.webpackChainFns = Push(@, fn)])

\* a function contribution is called as soon as it is registered
configureWebpackEager(svc, fn) ==
    [service |-> [svc EXCEPT !.webpackRawConfigFns = Append(@, fn)],
     calls |-> IF fn.kind = "function" THEN <<fn>> ELSE <<>>]

configureWebpack(svc, fn) ==
    Done([svc EXCEPT !.webpackRawConfigFns = Push(@, fn)])

\* pushes onto the raw webpack list instead of the dev-server list
configureDevServerWrongList(svc, fn) ==
    [service |-> [svc EXCEPT !.webpackRawConfigFns = Append(@, fn)], calls |-> <<>>]

configureDevServer(svc, fn) ==
    Done([svc EXCEPT !.devServerConfigFns = Push(@, fn)])

---------------------------------------------------------------------------
(* Service: resolution of the accumulated mutation functions *)

ApplyChainFn(config, fn) == [config EXCEPT ![fn.field] = fn.value]

RECURSIVE ApplyChainFns(_, _)
ApplyChainFns(config, fns) ==
    IF fns = <<>> THEN config
    ELSE ApplyChainFns(ApplyChainFn(config, Head(fns)), Tail(fns))

ServiceResolveChainable(svc) ==
    [config |-> ApplyChainFns(BaseConfig, svc.webpackChainFns),
     calls |-> svc.webpackChainFns]

Merge(config, fn) == [config EXCEPT ![fn.field] = fn.value]

\* an object is merged; a function mutates the config in place or returns
\* an object that is merged into it
ApplyRawFn(config, fn) ==
    IF fn.kind = "object" THEN Merge(config, fn)
    ELSE IF fn.ret THEN Merge(config, fn)
    ELSE [config EXCEPT ![fn.field] = fn.value]

RECURSIVE ApplyRawFns(_, _)
ApplyRawFns(config, fns) ==
    IF fns = <<>> THEN config
    ELSE ApplyRawFns(ApplyRawFn(config, Head(fns)), Tail(fns))

RawFunctions(fns) == SelectSeq(fns, LAMBDA f : f.kind = "function")

ServiceResolveWebpackConfig(svc, chainableConfig) ==
    LET chain == IF chainableConfig = NoConfig
                 THEN ServiceResolveChainable(svc)
                 ELSE [config |-> chainableConfig, calls |-> <<>>]
    IN [chain |-> chain.config,
        config |-> ApplyRawFns(chain.config, svc.webpackRawConfigFns),
        calls |-> chain.calls \o RawFunctions(svc.webpackRawConfigFns)]

resolveWebpackConfig(svc, chainableConfig) ==
    LET r == ServiceResolveWebpackConfig(svc, chainableConfig)
    IN [service |-> svc, calls |-> r.calls,
        result |-> [chain |-> r.chain, config |-> r.config, calls |-> r.calls]]

resolveChainableWebpackConfig(svc) ==
    LET r == ServiceResolveChainable(svc)
    IN [service |-> svc, calls |-> r.calls,
        result |-> [chain |-> r.config, config |-> NoConfig, calls |-> r.calls]]

---------------------------------------------------------------------------
(* semver.satisfies, for full versions and for ranges that are a list of   *)
(* comparators (>=, <=, >, <, =) and caret ranges of full versions         *)

\* a numeric identifier: digits without a leading zero
IsNumeric(s) ==
    /\ s /= <<>>
    /\ \A i \in 1..Len(s) : IsDigit(s[i])
    /\ Len(s) > 1 => s[1] /= "0"

RECURSIVE ParseNat(_)
ParseNat(s) ==
    IF s = <<>> THEN 0
    ELSE ParseNat(SubSeq(s, 1, Len(s) - 1)) * 10 + DigitValue(s[Len(s)])

IsIdentifier(s) ==
    /\ s /= <<>>
    /\ \A i \in 1..Len(s) : \E k \in 1..Len(CharCodes) : CharCodes[k] = s[i]
    /\ (\A i \in 1..Len(s) : IsDigit(s[i])) => IsNumeric(s)

NoVersion == [ok |-> FALSE, major |-> 0, minor |-> 0, patch |-> 0, pre |-> <<>>]

\* new SemVer(text)
ParseVersion(text) ==
    LET dash == IndexOf(text, "-")
        main == IF dash = 0 THEN text ELSE SubSeq(text, 1, dash - 1)
        pre == IF dash = 0 THEN <<>> ELSE Split(SubSeq(text, dash + 1, Len(text)), ".")
        nums == Split(main, ".")
    IN IF /\ Len(nums) = 3
          /\ \A i \in 1..3 : IsNumeric(nums[i])
          /\ \A i \in 1..Len(pre) : IsIdentifier(pre[i])
       THEN [ok |-> TRUE, major |-> ParseNat(nums[1]), minor |-> ParseNat(nums[2]),
             patch |-> ParseNat(nums[3]), pre |-> pre]
       ELSE NoVersion

Sign(a, b) == IF a < b THEN -1 ELSE IF a > b THEN 1 ELSE 0

RECURSIVE CompareStrings(_, _)
CompareStrings(a, b) ==
    IF a = <<>> /\ b = <<>> THEN 0
    ELSE IF a = <<>> THEN -1
    ELSE IF b = <<>> THEN 1
    ELSE IF Head(a) /= Head(b) THEN Sign(Code(Head(a)), Code(Head(b)))
    ELSE CompareStrings(Tail(a), Tail(b))

\* compareIdentifiers: numeric identifiers sort before the others
CompareIdentifiers(a, b) ==
    IF IsNumeric(a) /\ IsNumeric(b) THEN Sign(ParseNat(a), ParseNat(b))
    ELSE IF IsNumeric(a) THEN -1
    ELSE IF IsNumeric(b) THEN 1
    ELSE CompareStrings(a, b)

RECURSIVE ComparePreIdentifiers(_, _)
ComparePreIdentifiers(a, b) ==
    IF a = <<>> /\ b = <<>> THEN 0
    ELSE IF a = <<>> THEN -1
    ELSE IF b = <<>> THEN 1
    ELSE IF CompareIdentifiers(Head(a), Head(b)) /= 0
         THEN CompareIdentifiers(Head(a), Head(b))
    ELSE ComparePreIdentifiers(Tail(a), Tail(b))

\* SemVer.comparePre: a release sorts after its pre-releases
ComparePre(a, b) ==
    IF a.pre /= <<>> /\ b.pre = <<>> THEN -1
    ELSE IF a.pre = <<>> /\ b.pre /= <<>> THEN 1
    ELSE ComparePreIdentifiers(a.pre, b.pre)

\* SemVer.compare
Compare(a, b) ==
    IF a.major /= b.major THEN Sign(a.major, b.major)
    ELSE IF a.minor /= b.minor THEN Sign(a.minor, b.minor)
    ELSE IF a.patch /= b.patch THEN Sign(a.patch, b.patch)
    ELSE ComparePre(a, b)

Comparator(op, v) == [op |-> op, semver |-> v]

Zero == <<"0">>

Ver(major, minor, patch, pre) ==
    [ok |-> TRUE, major |-> major, minor |-> minor, patch |-> patch, pre |-> pre]

\* replaceCaret: ^M.m.p[-pr] as a pair of comparators
Caret(v, includePrerelease) ==
    LET low == IF v.pre = <<>> /\ v.major = 0 /\ includePrerelease
               THEN [v EXCEPT !.pre = <<Zero>>] ELSE v
        high == IF v.major /= 0 THEN Ver(v.major + 1, 0, 0, <<Zero>>)
                ELSE IF v.minor /= 0 THEN Ver(0, v.minor + 1, 0, <<Zero>>)
                ELSE Ver(0, 0, v.patch + 1, <<Zero>>)
    IN <<Comparator(">=", low), Comparator("<", high)>>

Operators == <<<<">", "=">>, <<"<", "=">>, <<">">>, <<"<">>, <<"=">>>>

\* one space-separated part of a range: a sequence of comparators, or
\* <<Comparator("invalid", ...)>> when it is not a comparator
ParseComparator(text, includePrerelease) ==
    LET ops == {i \in 1..Len(Operators) : StartsWith(text, Operators[i])}
        op == IF ops = {} THEN <<>>
              ELSE Operators[CHOOSE i \in ops : \A j \in ops : i <= j]
        name == IF op = <<>> THEN "=" ELSE IF Len(op) = 2 THEN op[1] \o op[2]
                ELSE op[1]
        v == ParseVersion(SubSeq(text, Len(op) + 1, Len(text)))
    IN IF text = <<>> \/ text = <<"*">> THEN <<Comparator("any", NoVersion)>>
       ELSE IF StartsWith(text, <<"^">>)
       THEN LET c == ParseVersion(Tail(text))
            IN IF c.ok THEN Caret(c, includePrerelease)
               ELSE <<Comparator("invalid", NoVersion)>>
       ELSE IF v.ok THEN <<Comparator(name, v)>>
       ELSE <<Comparator("invalid", NoVersion)>>

RECURSIVE ParseComparators(_, _)
ParseComparators(parts, includePrerelease) ==
    IF parts = <<>> THEN <<>>
    ELSE ParseComparator(Head(parts), includePrerelease)
            \o ParseComparators(Tail(parts), includePrerelease)

\* new Range(text): the comparators of the range
ParseRange(text, includePrerelease) ==
    ParseComparators(Split(text, " "), includePrerelease)

ValidRange(text) ==
    \A c \in Range(ParseRange(text, TRUE)) : c.op /= "invalid"

\* Comparator.test
TestComparator(c, v) ==
    CASE c.op = "any" -> TRUE
      [] c.op = ">=" -> Compare(v, c.semver) >= 0
      [] c.op = "<=" -> Compare(v, c.semver) <= 0
      [] c.op = ">" -> Compare(v, c.semver) > 0
      [] c.op = "<" -> Compare(v, c.semver) < 0
      [] c.op = "=" -> Compare(v, c.semver) = 0
      [] OTHER -> FALSE

\* testSet: a pre-release version is only accepted, without
\* includePrerelease, by a comparator on the same major.minor.patch that
\* has a pre-release tag itself
TestSet(set, v, includePrerelease) ==
    /\ \A c \in Range(set) : TestComparator(c, v)
    /\ (v.pre /= <<>> /\ ~includePrerelease) =>
          \E c \in Range(set) :
              /\ c.op /= "any"
              /\ c.semver.pre /= <<>>
              /\ c.semver.major = v.major
              /\ c.semver.minor = v.minor
              /\ c.semver.patch = v.patch

\* semver.satisfies(version, range, options): false for an invalid range
\* or an invalid version
satisfies(version, range, options) ==
    LET set == ParseRange(range, options.includePrerelease)
        v == ParseVersion(version)
    IN /\ \A c \in Range(set) : c.op /= "invalid"
       /\ v.ok
       /\ TestSet(set, v, options.includePrerelease)

---------------------------------------------------------------------------
(* PluginApi.assertVersion *)

ExpectedStringOrInteger == <<"Expected string or integer value.">>

RequireMessage(range, version) ==
    <<"Require @planjs/react-cli-service ", "\"">> \o range
        \o <<"\"", ", but was loaded with ", "\"">> \o version \o <<"\"", ".">>

Returned == [kind |-> "return", message |-> <<>>, compared |-> TRUE]

Thrown(message, compared) ==
    [kind |-> "throw", message |-> message, compared |-> compared]

\* the caret range without the pre-release tag
MajorRangePlain(range) == <<"^">> \o NumberToString(range) \o <<".", "0", ".", "0">>

MajorRange(range) == <<"^">> \o NumberToString(range) \o <<".", "0", ".", "0", "-", "0">>

ExcludePrerelease == [includePrerelease |-> FALSE]

SatisfiesOptions == [includePrerelease |-> TRUE]

version(svc) == svc.pkgJson.version

assertVersion(svc, range) ==
    IF range.t = "number" /\ ~IsInteger(range)
    THEN Thrown(ExpectedStringOrInteger, FALSE)
    ELSE LET r == IF range.t = "number" THEN Str(MajorRange(range)) ELSE range
         IN IF r.t /= "string" THEN Thrown(ExpectedStringOrInteger, FALSE)
            ELSE IF satisfies(version(svc), r.str, SatisfiesOptions) THEN Returned
            ELSE Thrown(RequireMessage(r.str, version(svc)), TRUE)

---------------------------------------------------------------------------
(* PluginApi.getCacheIdentifier *)

Fn(source) == [t |-> "function", num |-> 0, den |-> 1, str |-> source]

\* only CRLF is replaced, a lone CR is kept
ReplaceCRLFOnly(text) ==
    LET F[i \in 1..(Len(text) + 1)] ==
            IF i > Len(text) THEN <<>>
            ELSE IF text[i] = "\r" /\ i < Len(text) /\ text[i + 1] = "\n"
                 THEN <<"\n">> \o F[i + 2]
            ELSE <<text[i]>> \o F[i + 1]
    IN F[1]

\* String.prototype.replace(/\r\n?/g, '\n')
ReplaceLineEndings(text) ==
    LET F[i \in 1..(Len(text) + 2)] ==
            IF i > Len(text) THEN <<>>
            ELSE IF text[i] = "\r"
                 THEN <<"\n">> \o (IF i < Len(text) /\ text[i + 1] = "\n"
                                   THEN F[i + 2] ELSE F[i + 1])
            ELSE <<text[i]>> \o F[i + 1]
    IN F[1]

\* path.resolve(this.service.context, _path) for a relative _path
resolve(svc, path) == <<svc.context>> \o path

\* loadJSON(path, import.meta.url).version: the package's version, or the
\* lookup throws
loadJSON(e, path) ==
    IF e.packages[path].t = "undefined"
    THEN [threw |-> TRUE, version |-> Undefined]
    ELSE [threw |-> FALSE, version |-> e.packages[path]]

\* the function is replaced by the text "function"
fmtFuncTypeOnly(conf) ==
    IF conf.t = "function" THEN Str(<<"function">>) ELSE conf

fmtFunc(conf) ==
    IF conf.t = "function" THEN Str(ReplaceLineEndings(conf.str)) ELSE conf

\* fs.existsSync
existsSync(e, absolutePath) == e.files[absolutePath].state /= "absent"

\* fs.readFileSync(absolutePath, 'utf-8')
readFileSync(e, absolutePath) ==
    IF e.files[absolutePath].state = "file"
    THEN [threw |-> FALSE, value |-> Str(e.files[absolutePath].text)]
    ELSE [threw |-> TRUE, value |-> Undefined]

\* the read is not guarded: a failing read propagates
readConfigUnguarded(svc, e, file) ==
    IF ~existsSync(e, <<svc.context>> \o <<file>>)
    THEN [threw |-> FALSE, value |-> Undefined]
    ELSE readFileSync(e, <<svc.context>> \o <<file>>)

readConfig(svc, e, file) ==
    LET absolutePath == resolve(svc, <<file>>)
    IN IF ~existsSync(e, absolutePath) THEN [threw |-> FALSE, value |-> Undefined]
       ELSE LET r == readFileSync(e, absolutePath)
            IN IF r.threw THEN [threw |-> FALSE, value |-> Undefined] ELSE r

LockFiles == <<"package-lock.json", "yarn.lock", "pnpm-lock.yaml">>

\* hash-sum: a deterministic structural hash, taken to be free of collisions
hash(value) == <<"hash-sum", value>>

CacheReturned(cacheDirectory, cacheIdentifier, variables) ==
    [kind |-> "return", cacheDirectory |-> cacheDirectory,
     cacheIdentifier |-> cacheIdentifier, variables |-> variables]

CacheThrown(variables) ==
    [kind |-> "throw", cacheDirectory |-> <<>>, cacheIdentifier |-> <<>>,
     variables |-> variables]

\* configFiles is an array of file names or one file name
getCacheIdentifier(svc, e, id, partialIdentifier, configFiles) ==
    LET cacheDirectory == resolve(svc, <<"node_modules/.cache/", id>>)
        cliService == loadJSON(e, "../package.json")
        cacheLoader == loadJSON(e, "cache-loader/package.json")
        names == (IF configFiles.t /= "array" THEN <<configFiles.name>>
                  ELSE configFiles.items) \o LockFiles
        reads == [i \in 1..Len(names) |-> readConfig(svc, e, names[i])]
        variables ==
            [partialIdentifier |-> partialIdentifier,
             cliService |-> cliService.version,
             env |-> e.processEnv.NODE_ENV,
             test |-> Truthy(e.processEnv.REACT_CLI_TEST),
             config |-> <<fmtFunc(svc.userOptions.chainWebpack),
                          fmtFunc(svc.userOptions.configureWebpack)>>,
             cacheLoader |-> IF cacheLoader.threw THEN <<>>
                             ELSE <<cacheLoader.version>>,
             configFiles |->
                [i \in 1..Len(names) |->
                    IF Truthy(reads[i].value)
                    THEN Str(ReplaceLineEndings(reads[i].value.str))
                    ELSE reads[i].value]]
    IN IF cliService.threw \/ \E i \in 1..Len(names) : reads[i].threw
       THEN CacheThrown(variables)
       ELSE CacheReturned(cacheDirectory, hash(variables), variables)

---------------------------------------------------------------------------
(* Values of the surroundings *)

Context == "/project"

HostVersion == <<"1", ".", "0", ".", "0">>

\* service.pkgJson.version
Versions == {<<"0", ".", "0", ".", "0">>, <<"0", ".", "0", ".", "0", "-", "a", "l", "p", "h", "a">>, <<"0", ".", "1", ".", "0">>, <<"1", ".", "0", ".", "0">>, <<"1", ".", "0", ".", "0", "-", "0">>, <<"1", ".", "0", ".", "0", "-", "a", "l", "p", "h", "a", ".", "1">>, <<"1", ".", "2", ".", "3">>, <<"2", ".", "0", ".", "0", "-", "b", "e", "t", "a">>, <<"2", ".", "0", ".", "0">>, <<"1", "0", ".", "0", ".", "0">>}

\* arguments of assertVersion
RangeArgs ==
    {Num(0, 1), Num(1, 1), Num(2, 1), Num(10, 1), Num(-1, 1), Num(3, 2),
     Num(0, 0), Undefined, EmptyObject, Other("boolean"),
     Str(<<"^", "0", ".", "0", ".", "0", "-", "0">>), Str(<<"^", "1", ".", "0", ".", "0", "-", "0">>), Str(<<"^", "2", ".", "0", ".", "0", "-", "0">>), Str(<<"^", "1", "0", ".", "0", ".", "0", "-", "0">>), Str(<<"^", "-", "1", ".", "0", ".", "0", "-", "0">>),
     Str(<<"^", "1", ".", "0", ".", "0">>), Str(<<">", "=", "1", ".", "2", ".", "0">>), Str(<<">", "=", "1", ".", "0", ".", "0", " ", "<", "2", ".", "0", ".", "0">>), Str(<<"1", ".", "0", ".", "0">>), Str(<<"*">>), Str(<<"l", "a", "t", "e", "s", "t">>)}

SourceLF == <<"f", "\n", "g">>

SourceCRLF == <<"f", "\r", "\n", "g">>

SourceCR == <<"f", "\r", "g">>

SourceOther == <<"f", "\n", "h">>

ConfigFileName == "babel.config.js"

FileNames == Range(LockFiles) \cup {ConfigFileName}

Absent == [state |-> "absent", text |-> <<>>]

Unreadable == [state |-> "unreadable", text |-> <<>>]

File(text) == [state |-> "file", text |-> text]

FileContents ==
    {Absent, Unreadable, File(<<"a", "\n", "\n", "b">>), File(<<"a", "\r", "\r", "\n", "b">>)}

NoProcessEnv == [NODE_ENV |-> Undefined, REACT_CLI_TEST |-> Undefined]

ProcessEnvs ==
    {NoProcessEnv,
     [NODE_ENV |-> Str(<<"production">>), REACT_CLI_TEST |-> Str(<<"1">>)],
     [NODE_ENV |-> Str(<<"production">>), REACT_CLI_TEST |-> Str(<<"true">>)]}

CacheLoaderVersions == {Undefined, Str(<<"4", ".", "1", ".", "0">>)}

Packages(cacheLoader) ==
    [p \in {"../package.json", "cache-loader/package.json"} |->
        IF p = "../package.json" THEN Str(HostVersion) ELSE cacheLoader]

EmptyProject ==
    [files |-> [path \in {<<Context, f>> : f \in FileNames} |-> Absent],
     processEnv |-> NoProcessEnv,
     packages |-> Packages(Undefined)]

\* a project with lockfiles and a config file of several line-ending
\* styles, one of them unreadable
MixedProject ==
    [EmptyProject EXCEPT !.files[<<Context, "package-lock.json">>] = File(<<"a", "\n", "\n", "b">>),
                         !.files[<<Context, "yarn.lock">>] = File(<<>>),
                         !.files[<<Context, "pnpm-lock.yaml">>] = Unreadable,
                         !.files[<<Context, ConfigFileName>>] = File(<<"a", "\r", "b">>),
                         !.processEnv = [NODE_ENV |-> Str(<<"production">>),
                                         REACT_CLI_TEST |-> Str(<<"1">>)]]

\* the surroundings a service may start in
BaselineEnvs == {EmptyProject, MixedProject}

\* arguments of getCacheIdentifier: id, partialIdentifier, configFiles
NoConfigFiles == [t |-> "array", name |-> "", items |-> <<>>]

CacheArgs ==
    {[id |-> "babel-loader", partialIdentifier |-> Str(<<"a">>),
      configFiles |-> NoConfigFiles],
     [id |-> "babel-loader", partialIdentifier |-> Str(<<"a">>),
      configFiles |-> [t |-> "string", name |-> ConfigFileName, items |-> <<>>]],
     [id |-> "ts-loader", partialIdentifier |-> Str(<<"b">>),
      configFiles |-> [t |-> "array", name |-> "", items |-> <<ConfigFileName>>]]}

---------------------------------------------------------------------------
(* The state machine of the registry *)

NoResult == [chain |-> NoConfig, config |-> NoConfig, calls |-> <<>>]

NoArg == [kind |-> "none", field |-> "x", value |-> 0, ret |-> FALSE]

Call(op, name, options, fn, arg, config) ==
    [op |-> op, name |-> name, options |-> options, fn |-> fn, arg |-> arg,
     config |-> config]

NoUserOptions == [chainWebpack |-> Undefined, configureWebpack |-> Undefined]

\* the Service as its constructor leaves it
InitService ==
    [commands |-> [n \in CommandNames |-> NoCommand],
     webpackChainFns |-> <<>>,
     webpackRawConfigFns |-> <<>>,
     devServerConfigFns |-> <<>>,
     pkgJson |-> [version |-> HostVersion],
     userOptions |-> NoUserOptions,
     context |-> Context]

InitRest ==
    /\ api = "plugin-a"
    /\ invoked = {}
    /\ resolved = NoResult
    /\ asserted = <<>>
    /\ cacheCalls = <<>>
    /\ edits = 0

Init ==
    /\ service = InitService
    /\ history = <<>>
    /\ env = EmptyProject
    /\ InitRest

Record(p, call, r) ==
    /\ Len(history) < MaxOps
    /\ service' = r.service
    /\ api' = p
    /\ history' = Append(history, call)
    /\ invoked' = invoked \cup Range(r.calls)
    /\ UNCHANGED <<asserted, env, cacheCalls, edits>>

RegisterCommand(p, name, options, fn) ==
    /\ Record(p, Call("registerCommand", name, options, fn, NoArg, NoConfig),
              registerCommand(service, name, options, fn))
    /\ UNCHANGED resolved

ChainWebpack(p, fn) ==
    /\ Record(p, Call("chainWebpack", "", Undefined, "", fn, NoConfig),
              chainWebpack(service, fn))
    /\ UNCHANGED resolved

ConfigureWebpack(p, fn) ==
    /\ Record(p, Call("configureWebpack", "", Undefined, "", fn, NoConfig),
              configureWebpack(service, fn))
    /\ UNCHANGED resolved

ConfigureDevServer(p, fn) ==
    /\ Record(p, Call("configureDevServer", "", Undefined, "", fn, NoConfig),
              configureDevServer(service, fn))
    /\ UNCHANGED resolved

ResolveWebpackConfig(p, chainableConfig) ==
    LET r == resolveWebpackConfig(service, chainableConfig)
    IN /\ Record(p, Call("resolveWebpackConfig", "", Undefined, "", NoArg,
                         chainableConfig), r)
       /\ resolved' = r.result

ResolveChainableWebpackConfig(p) ==
    LET r == resolveChainableWebpackConfig(service)
    IN /\ Record(p, Call("resolveChainableWebpackConfig", "", Undefined, "",
                         NoArg, NoConfig), r)
       /\ resolved' = r.result

Next ==
    \/ \E p \in Plugins, name \in CommandNames, options \in OptionsArgs,
          fn \in Handlers : RegisterCommand(p, name, options, fn)
    \/ \E p \in Plugins, fn \in ChainFns : ChainWebpack(p, fn)
    \/ \E p \in Plugins, fn \in RawFns : ConfigureWebpack(p, fn)
    \/ \E p \in Plugins, fn \in DevServerFns : ConfigureDevServer(p, fn)
    \/ \E p \in Plugins, c \in SuppliedConfigs \cup {NoConfig} :
          ResolveWebpackConfig(p, c)
    \/ \E p \in Plugins : ResolveChainableWebpackConfig(p)

Spec == Init /\ [][Next]_vars

---------------------------------------------------------------------------
(* The version guard: assertVersion applied to every argument under every  *)
(* host version                                                            *)

\* the two most recent entries of a log
Window(log, entry) ==
    IF Len(log) < 2 THEN Append(log, entry) ELSE <<log[2], entry>>

AssertVersion(p, range) ==
    /\ asserted' = Window(asserted, [range |-> range,
                                     outcome |-> assertVersion(service, range)])
    /\ api' = p
    /\ UNCHANGED <<service, history, invoked, resolved, env, cacheCalls, edits>>

InitVersion ==
    /\ \E v \in Versions : service = [InitService EXCEPT !.pkgJson.version = v]
    /\ history = <<>>
    /\ env = EmptyProject
    /\ InitRest

NextVersion == \E p \in Plugins, range \in RangeArgs : AssertVersion(p, range)

SpecVersion == InitVersion /\ [][NextVersion]_vars

---------------------------------------------------------------------------
(* The cache identifier: getCacheIdentifier called while the service's     *)
(* surroundings change, and across restarts of the service                 *)

UserOptions(chain, configure) ==
    [chainWebpack |-> chain, configureWebpack |-> configure]

Registration(op, fn) == Call(op, "", Undefined, "", fn, NoConfig)

ChainA == [kind |-> "chain", field |-> "x", value |-> 1, ret |-> FALSE]

ChainB == [kind |-> "chain", field |-> "x", value |-> 2, ret |-> FALSE]

RawA == [kind |-> "function", field |-> "y", value |-> 4, ret |-> FALSE]

PluginsAA ==
    <<Registration("chainWebpack", ChainA), Registration("configureWebpack", RawA)>>

PluginsBA ==
    <<Registration("chainWebpack", ChainB), Registration("configureWebpack", RawA)>>

\* what a start of the service loads: the user's options and the
\* registrations its plugins make
Boots ==
    {[userOptions |-> UserOptions(Undefined, Undefined), calls |-> PluginsAA],
     [userOptions |-> UserOptions(Fn(SourceLF), Undefined), calls |-> PluginsAA],
     [userOptions |-> UserOptions(Fn(SourceCRLF), Undefined), calls |-> PluginsAA],
     [userOptions |-> UserOptions(Fn(SourceOther), Undefined), calls |-> PluginsAA],
     [userOptions |-> UserOptions(Fn(SourceLF), Fn(SourceCR)), calls |-> PluginsAA],
     [userOptions |-> UserOptions(Fn(SourceLF), EmptyObject), calls |-> PluginsAA],
     [userOptions |-> UserOptions(Fn(SourceLF), Undefined), calls |-> PluginsBA]}

Apply(svc, call) ==
    CASE call.op = "chainWebpack" -> chainWebpack(svc, call.arg).service
      [] call.op = "configureWebpack" -> configureWebpack(svc, call.arg).service
      [] call.op = "configureDevServer" -> configureDevServer(svc, call.arg).service
      [] call.op = "registerCommand" ->
            registerCommand(svc, call.name, call.options, call.fn).service
      [] OTHER -> svc

RECURSIVE Replay(_, _)
Replay(svc, calls) ==
    IF calls = <<>> THEN svc ELSE Replay(Apply(svc, Head(calls)), Tail(calls))

BootService(boot) ==
    Replay([InitService EXCEPT !.userOptions = boot.userOptions], boot.calls)

InitCache ==
    /\ \E boot \in Boots : service = BootService(boot) /\ history = boot.calls
    /\ env \in BaselineEnvs
    /\ InitRest

Edit ==
    /\ edits < MaxEdits
    /\ edits' = edits + 1
    /\ UNCHANGED <<api, cacheCalls>>

\* the service is started again, with other user options or plugin code
Restart(boot) ==
    /\ Edit
    /\ service' = BootService(boot)
    /\ service' /= service
    /\ history' = boot.calls
    /\ invoked' = {}
    /\ resolved' = NoResult
    /\ asserted' = <<>>
    /\ UNCHANGED env

WriteFile(path, content) ==
    /\ Edit
    /\ env.files[path] /= content
    /\ env' = [env EXCEPT !.files[path] = content]
    /\ UNCHANGED <<service, history, invoked, resolved, asserted>>

SetProcessEnv(processEnv) ==
    /\ Edit
    /\ env.processEnv /= processEnv
    /\ env' = [env EXCEPT !.processEnv = processEnv]
    /\ UNCHANGED <<service, history, invoked, resolved, asserted>>

\* cache-loader is installed or removed
SetCacheLoader(cacheLoader) ==
    /\ Edit
    /\ env.packages /= Packages(cacheLoader)
    /\ env' = [env EXCEPT !.packages = Packages(cacheLoader)]
    /\ UNCHANGED <<service, history, invoked, resolved, asserted>>

GetCacheIdentifier(args) ==
    /\ cacheCalls' =
          Window(cacheCalls,
                 [args |-> args, service |-> service, env |-> env,
                  outcome |-> getCacheIdentifier(service, env, args.id,
                                  args.partialIdentifier, args.configFiles)])
    /\ UNCHANGED <<service, api, history, invoked, resolved, asserted, env, edits>>

NextCache ==
    \/ \E boot \in Boots : Restart(boot)
    \/ \E path \in DOMAIN env.files, content \in FileContents :
          WriteFile(path, content)
    \/ \E processEnv \in ProcessEnvs : SetProcessEnv(processEnv)
    \/ \E cacheLoader \in CacheLoaderVersions : SetCacheLoader(cacheLoader)
    \/ \E args \in CacheArgs : GetCacheIdentifier(args)

SpecCache == InitCache /\ [][NextCache]_vars

TypeOK ==
    /\ Len(history) <= MaxOps
    /\ api \in Plugins
    /\ edits <= MaxEdits
    /\ Len(asserted) <= 2
    /\ Len(cacheCalls) <= 2

---------------------------------------------------------------------------
(* Properties of the registry and of resolution *)

Calls(op) == SelectSeq(history, LAMBDA c : c.op = op)

RegisteredChainFns ==
    [i \in 1..Len(Calls("chainWebpack")) |-> Calls("chainWebpack")[i].arg]

ResolveOps == {"resolveWebpackConfig", "resolveChainableWebpackConfig"}

\* the last call resolved the chainable config from the registered functions
ChainResolvedLast ==
    /\ history /= <<>>
    /\ Last(history).op \in ResolveOps
    /\ Last(history).config = NoConfig

\* value of field f after the registrations regs: that of the latest
\* registration that sets f, the base value when there is none
LatestValue(regs, f) ==
    LET setters == {i \in 1..Len(regs) : regs[i].field = f}
    IN IF setters = {} THEN BaseConfig[f]
       ELSE regs[CHOOSE i \in setters : \A j \in setters : j <= i].value

\* C1: a resolution applies the chain mutation functions in the order of
\* their chainWebpack calls to one configuration, so each field holds the
\* value set by the latest registration that sets it, whichever plugin
\* made the registrations.
C1_ChainAppliedInRegistrationOrder ==
    ChainResolvedLast =>
        /\ SelectSeq(resolved.calls, LAMBDA f : f.kind = "chain") = RegisteredChainFns
        /\ resolved.chain = [f \in Fields |-> LatestValue(RegisteredChainFns, f)]

C1_Witness ==
    /\ ChainResolvedLast
    /\ \E i, j \in 1..Len(RegisteredChainFns) :
          /\ i < j
          /\ RegisteredChainFns[i].field = "x" /\ RegisteredChainFns[i].value = 1
          /\ RegisteredChainFns[j].field = "x" /\ RegisteredChainFns[j].value = 2
          /\ \A k \in 1..Len(RegisteredChainFns) :
                k > j => RegisteredChainFns[k].field /= "x"
    /\ resolved.chain["x"] = 2

\* C2: as long as neither resolveWebpackConfig nor
\* resolveChainableWebpackConfig has been called, no registered function
\* has been invoked.
C2_NoInvocationBeforeResolve ==
    (\A i \in 1..Len(history) : history[i].op \notin ResolveOps) => invoked = {}

C2_Witness ==
    /\ \A i \in 1..Len(history) : history[i].op \notin ResolveOps
    /\ Len(service.webpackChainFns) >= 1
    /\ \E i \in 1..Len(service.webpackRawConfigFns) :
          service.webpackRawConfigFns[i].kind = "function"
    /\ Len(service.devServerConfigFns) >= 1
    /\ invoked = {}

\* the latest registerCommand call for name, as a set of at most one call
LatestRegistration(name) ==
    LET regs == {i \in 1..Len(history) :
                    history[i].op = "registerCommand" /\ history[i].name = name}
    IN {history[i] : i \in {k \in regs : \A j \in regs : j <= k}}

\* C3 as stated: the command stored under a name is the handler and the
\* options of the latest registerCommand call for that name.
C3_StoresLatestCallAsGiven ==
    \A name \in CommandNames :
        /\ LatestRegistration(name) = {} => service.commands[name] = NoCommand
        /\ \A c \in LatestRegistration(name) :
              service.commands[name] = [fn |-> c.fn, options |-> c.options]

\* C3 (amended): the command stored under a name is the handler of the
\* latest registerCommand call for that name together with that call's
\* options, or the empty object when that call's options were omitted;
\* names never registered hold no command.
C3_LastWriterWins ==
    \A name \in CommandNames :
        /\ LatestRegistration(name) = {} => service.commands[name] = NoCommand
        /\ \A c \in LatestRegistration(name) :
              /\ service.commands[name].fn = c.fn
              /\ c.options.t = "object" => service.commands[name].options = c.options
              /\ c.options.t = "undefined" =>
                    service.commands[name].options = EmptyObject

C3_Witness ==
    \E i, j \in 1..Len(history) :
        /\ i < j
        /\ history[i].op = "registerCommand" /\ history[i].name = "build"
        /\ history[j].op = "registerCommand" /\ history[j].name = "build"
        /\ history[i].fn /= history[j].fn
        /\ history[j] \in LatestRegistration("build")
        /\ service.commands["build"].fn = history[j].fn
        /\ service.commands["serve"] /= NoCommand

IsPrefix(s, t) == Len(s) <= Len(t) /\ SubSeq(t, 1, Len(s)) = s

ListOf(op) ==
    CASE op = "chainWebpack" -> "webpackChainFns"
      [] op = "configureWebpack" -> "webpackRawConfigFns"
      [] op = "configureDevServer" -> "devServerConfigFns"
      [] OTHER -> "none"

Lists == {"webpackChainFns", "webpackRawConfigFns", "devServerConfigFns"}

AppendStep ==
    LET c == Last(history')
    IN /\ \A l \in Lists :
            /\ IsPrefix(service[l], service'[l])
            /\ service'[l] = IF l = ListOf(c.op) THEN Append(service[l], c.arg)
                             ELSE service[l]
       /\ ListOf(c.op) /= "none" => service'.commands = service.commands

\* C4: every call of chainWebpack, configureWebpack or configureDevServer
\* appends its argument at the end of its own list and changes nothing
\* else of the service; no call shortens or reorders a list.
C4_AppendOnly == [][AppendStep]_vars

C4_Witness ==
    /\ Len(service.webpackChainFns) = 1
    /\ Len(service.webpackRawConfigFns) = 1
    /\ Len(service.devServerConfigFns) = 1

---------------------------------------------------------------------------
(* Properties of the version guard *)

PrereleaseInclusive == [includePrerelease |-> TRUE]

\* C5: for a valid range string, assertVersion throws exactly when the
\* host version does not satisfy the range with pre-releases included; it
\* returns normally otherwise, and the error it throws names the range and
\* the version.
C5_ThrowsIffUnsatisfied ==
    \A i \in 1..Len(asserted) :
        LET a == asserted[i]
        IN (a.range.t = "string" /\ ValidRange(a.range.str)) =>
              /\ a.outcome.kind = "throw" <=>
                    ~satisfies(service.pkgJson.version, a.range.str, PrereleaseInclusive)
              /\ a.outcome.kind /= "throw" => a.outcome.kind = "return"
              /\ a.outcome.kind = "throw" =>
                    /\ Contains(a.outcome.message, a.range.str)
                    /\ Contains(a.outcome.message, service.pkgJson.version)

C5_Witness ==
    /\ Len(asserted) = 2
    /\ ParseVersion(service.pkgJson.version).pre /= <<>>
    /\ asserted[1].range = Str(<<">", "=", "1", ".", "2", ".", "0">>)
    /\ asserted[1].outcome.kind = "return"
    /\ asserted[2].range = Str(<<"^", "1", ".", "0", ".", "0">>)
    /\ asserted[2].outcome.kind = "throw"

RECURSIVE Decimal(_)
Decimal(n) ==
    IF n < 0 THEN <<"-">> \o Decimal(-n)
    ELSE IF n < 10 THEN <<DigitChars[n + 1]>>
    ELSE Decimal(n \div 10) \o Decimal(n % 10)

\* the text ^N.0.0-0
CaretOfMajor(n) == <<"^">> \o Decimal(n) \o <<".", "0", ".", "0", "-", "0">>

IsIntegerArg(v) == v.t = "number" /\ v.den = 1

\* C6: assertVersion(N) for an integer N has the outcome of
\* assertVersion("^N.0.0-0") under the same host version: both return, or
\* both throw the same error.
C6_IntegerIsCaretRange ==
    \A i, j \in 1..Len(asserted) :
        (/\ IsIntegerArg(asserted[i].range)
         /\ asserted[j].range = Str(CaretOfMajor(asserted[i].range.num))) =>
            asserted[i].outcome = asserted[j].outcome

C6_Witness ==
    /\ Len(asserted) = 2
    /\ asserted[1].range = Num(1, 1)
    /\ asserted[2].range = Str(CaretOfMajor(1))
    /\ asserted[1].outcome.kind = "throw"
    /\ asserted[2].outcome = asserted[1].outcome
    /\ ParseVersion(service.pkgJson.version).major = 2

NotAnInteger(v) == v.t = "number" /\ (v.den = 0 \/ (v.den > 1 /\ v.num % v.den /= 0))

\* C7: for a number that is not an integer, and for a value that is
\* neither a number nor a string, assertVersion throws 'Expected string or
\* integer value.' without comparing versions, whatever the host version;
\* that error differs from the one thrown for an incompatible version.
C7_InvalidRangeRejected ==
    \A i \in 1..Len(asserted) :
        LET a == asserted[i]
        IN (NotAnInteger(a.range) \/ a.range.t \notin {"number", "string"}) =>
              /\ a.outcome.kind = "throw"
              /\ a.outcome.message = <<"Expected string or integer value.">>
              /\ ~a.outcome.compared
              /\ \A r \in RangeArgs, v \in Versions :
                    a.outcome.message /= RequireMessage(r.str, v)

C7_Witness ==
    /\ Len(asserted) = 2
    /\ asserted[1].range = Num(3, 2)
    /\ asserted[1].outcome.kind = "throw"
    /\ asserted[2].range = Undefined
    /\ asserted[2].outcome.kind = "throw"

---------------------------------------------------------------------------
(* Properties of the cache identifier *)

IsLineEnd(c) == c = "\r" \/ c = "\n"

\* the lines of a text, whatever ends them: CRLF, a lone CR or LF
RECURSIVE Lines(_)
Lines(text) ==
    IF \A i \in 1..Len(text) : ~IsLineEnd(text[i]) THEN <<text>>
    ELSE LET i == CHOOSE k \in 1..Len(text) :
                    IsLineEnd(text[k]) /\ \A j \in 1..(k - 1) : ~IsLineEnd(text[j])
             skip == IF text[i] = "\r" /\ i < Len(text) /\ text[i + 1] = "\n"
                     THEN 2 ELSE 1
         IN <<SubSeq(text, 1, i - 1)>> \o Lines(SubSeq(text, i + skip, Len(text)))

\* the same value, up to the line-ending style of a function's source
SameSource(a, b) ==
    IF a.t = "function" /\ b.t = "function" THEN Lines(a.str) = Lines(b.str)
    ELSE a = b

\* the same file content, up to line-ending style
SameContent(a, b) ==
    a.state = b.state /\ (a.state = "file" => Lines(a.text) = Lines(b.text))

\* the files a call lists: its configFiles, then the lockfiles
ListedFiles(args) ==
    (IF args.configFiles.t = "string" THEN <<args.configFiles.name>>
     ELSE args.configFiles.items)
        \o <<"package-lock.json", "yarn.lock", "pnpm-lock.yaml">>

FileOf(c, name) == c.env.files[<<c.service.context, name>>]

TestFlag(c) == Truthy(c.env.processEnv.REACT_CLI_TEST)

\* the inputs C8 lists are the same in the calls a and b
SameListedInputs(a, b) ==
    /\ a.args = b.args
    /\ a.service.context = b.service.context
    /\ a.env.packages["../package.json"] = b.env.packages["../package.json"]
    /\ a.env.processEnv.NODE_ENV = b.env.processEnv.NODE_ENV
    /\ TestFlag(a) = TestFlag(b)
    /\ SameSource(a.service.userOptions.chainWebpack, b.service.userOptions.chainWebpack)
    /\ SameSource(a.service.userOptions.configureWebpack,
                  b.service.userOptions.configureWebpack)
    /\ \A name \in Range(ListedFiles(a.args)) :
          SameContent(FileOf(a, name), FileOf(b, name))

SameResult(a, b) ==
    /\ a.outcome.kind = "return"
    /\ b.outcome.kind = "return"
    /\ a.outcome.cacheDirectory = b.outcome.cacheDirectory
    /\ a.outcome.cacheIdentifier = b.outcome.cacheIdentifier

CacheLoaderOf(c) == c.env.packages["cache-loader/package.json"]

\* C8 as stated: two calls with the same id, partialIdentifier, host
\* version, NODE_ENV, test flag, user hook sources and listed file
\* contents, each up to line-ending style, return the same result.
C8_SameListedInputsSameResult ==
    \A i, j \in 1..Len(cacheCalls) :
        SameListedInputs(cacheCalls[i], cacheCalls[j]) =>
            SameResult(cacheCalls[i], cacheCalls[j])

\* C8 (amended): two calls with the same listed inputs, each up to
\* line-ending style, and the same installed cache-loader version (or
\* none) return the same cacheDirectory and cacheIdentifier.
C8_SameInputsSameResult ==
    \A i, j \in 1..Len(cacheCalls) :
        (/\ SameListedInputs(cacheCalls[i], cacheCalls[j])
         /\ CacheLoaderOf(cacheCalls[i]) = CacheLoaderOf(cacheCalls[j])) =>
            SameResult(cacheCalls[i], cacheCalls[j])

\* two calls whose listed files or hook sources differ in line-ending style
C8_Witness ==
    /\ Len(cacheCalls) = 2
    /\ SameListedInputs(cacheCalls[1], cacheCalls[2])
    /\ CacheLoaderOf(cacheCalls[1]) = CacheLoaderOf(cacheCalls[2])
    /\ \/ \E name \in Range(ListedFiles(cacheCalls[1].args)) :
             FileOf(cacheCalls[1], name) /= FileOf(cacheCalls[2], name)
       \/ cacheCalls[1].service.userOptions /= cacheCalls[2].service.userOptions
    /\ SameResult(cacheCalls[1], cacheCalls[2])

Differs(x, y) == IF x = y THEN 0 ELSE 1

\* number of registered functions that differ between two lists
ListDifferences(s, t) ==
    IF Len(s) /= Len(t) THEN 2
    ELSE Cardinality({k \in 1..Len(s) : s[k] /= t[k]})

BothFunctions(x, y) == x.t = "function" /\ y.t = "function"

HookKeys == {"chainWebpack", "configureWebpack"}

\* the source text of a user hook changed, by more than line-ending style
SourceChanged(x, y) == BothFunctions(x, y) /\ Lines(x.str) /= Lines(y.str)

\* the calls a and b differ in the source of exactly one mutation
\* function, a user hook or a registered function, and in nothing else
OneMutationFunctionChanged(a, b) ==
    /\ a.args = b.args
    /\ a.env = b.env
    /\ \A k \in HookKeys :
          a.service.userOptions[k] /= b.service.userOptions[k] =>
              SourceChanged(a.service.userOptions[k], b.service.userOptions[k])
    /\ Differs(a.service.userOptions.chainWebpack, b.service.userOptions.chainWebpack)
        + Differs(a.service.userOptions.configureWebpack,
                  b.service.userOptions.configureWebpack)
        + ListDifferences(a.service.webpackChainFns, b.service.webpackChainFns)
        + ListDifferences(a.service.webpackRawConfigFns, b.service.webpackRawConfigFns)
        = 1

\* C9 as stated: changing the source of any one mutation function, a user
\* hook or a function registered through chainWebpack or configureWebpack,
\* changes the cacheIdentifier.
C9_AnyFunctionChangeChangesIdentifier ==
    \A i, j \in 1..Len(cacheCalls) :
        OneMutationFunctionChanged(cacheCalls[i], cacheCalls[j]) =>
            cacheCalls[i].outcome.cacheIdentifier /= cacheCalls[j].outcome.cacheIdentifier

\* the calls a and b differ in the source of exactly one user hook, by
\* more than line-ending style, and in nothing else
OneUserHookChanged(a, b) ==
    /\ a.args = b.args
    /\ a.env = b.env
    /\ a.service.webpackChainFns = b.service.webpackChainFns
    /\ a.service.webpackRawConfigFns = b.service.webpackRawConfigFns
    /\ \E k \in HookKeys :
          /\ SourceChanged(a.service.userOptions[k], b.service.userOptions[k])
          /\ \A other \in HookKeys \ {k} :
                a.service.userOptions[other] = b.service.userOptions[other]

\* C9 (amended): with every other input fixed, changing the source of the
\* user's chainWebpack or configureWebpack option by more than line-ending
\* style changes the cacheIdentifier.
C9_UserHookChangeChangesIdentifier ==
    \A i, j \in 1..Len(cacheCalls) :
        OneUserHookChanged(cacheCalls[i], cacheCalls[j]) =>
            /\ cacheCalls[i].outcome.kind = "return"
            /\ cacheCalls[j].outcome.kind = "return"
            /\ cacheCalls[i].outcome.cacheIdentifier
                  /= cacheCalls[j].outcome.cacheIdentifier

C9_Witness ==
    /\ Len(cacheCalls) = 2
    /\ OneUserHookChanged(cacheCalls[1], cacheCalls[2])
    /\ cacheCalls[1].outcome.cacheIdentifier /= cacheCalls[2].outcome.cacheIdentifier

\* C10: getCacheIdentifier returns a result whether or not cache-loader is
\* installed and whether or not the listed files exist and can be read; a
\* file that is missing or unreadable contributes undefined.
C10_NeverFailsOnOptionalInputs ==
    \A i \in 1..Len(cacheCalls) :
        LET c == cacheCalls[i]
            names == ListedFiles(c.args)
        IN /\ c.outcome.kind = "return"
           /\ c.outcome.cacheIdentifier /= <<>>
           /\ Len(c.outcome.variables.configFiles) = Len(names)
           /\ \A k \in 1..Len(names) :
                 FileOf(c, names[k]).state /= "file" =>
                    c.outcome.variables.configFiles[k] = Undefined
           /\ CacheLoaderOf(c) = Undefined => c.outcome.variables.cacheLoader = <<>>

C10_Witness ==
    \E i \in 1..Len(cacheCalls) :
        LET c == cacheCalls[i]
        IN /\ CacheLoaderOf(c) = Undefined
           /\ \E name \in Range(ListedFiles(c.args)) : FileOf(c, name).state = "absent"
           /\ \E name \in Range(ListedFiles(c.args)) :
                 FileOf(c, name).state = "unreadable"
           /\ c.outcome.kind = "return"

=============================================================================
